---- MODULE Spec2Model ----
(***************************************************************************)
(* Model of the AI Debate Coach backend (src/app.py).                      *)
(*                                                                         *)
(* Two request handlers are modelled:                                      *)
(*   speech_to_text     saves the upload to the fixed path "input.wav",    *)
(*                      reads it back and sends it to the recognizer;      *)
(*   evaluate_argument  validates the JSON body, calls the generation      *)
(*                      service, and cuts the reply into four fields with  *)
(*                      four regular expressions.                          *)
(*                                                                         *)
(* Text is a sequence of one-character strings, so that the regular        *)
(* expressions are evaluated character by character as re.search does.     *)
(* A float is the pair <<m, e>> meaning m / 10^e with m not divisible by   *)
(* 10 (or <<0, 0>>); for the short numerals of the model two numerals      *)
(* denote the same Python float exactly when they denote the same pair.    *)
(***************************************************************************)
EXTENDS Integers, Sequences, FiniteSets, TLC

(***************************************************************************)
(* Bounds of the model.                                                    *)
(***************************************************************************)
\* free-form replies: at most this many chunks of ChunkPool
MaxChunks == 3
\* well-formed replies: at most this many filler chunks around the markers
MaxFill == 3
\* score replies: at most this many characters after the score marker
MaxTail == 4
\* the blocks an upload is written to the file and read back in
Blocks == 2

(***************************************************************************)
(* Literals of the four patterns and the three text defaults.              *)
(***************************************************************************)
RATIONALITY ==
    <<"*","*","R","a","t","i","o","n","a","l","i","t","y"," ","S","c","o","r","e",":","*","*">>
REASONING ==
    <<"*","*","R","e","a","s","o","n","i","n","g"," ","f","o","r"," ","S","c","o","r","e",":","*","*">>
FEEDBACK ==
    <<"*","*","F","e","e","d","b","a","c","k",":","*","*">>
IMPROVED ==
    <<"*","*","I","m","p","r","o","v","e","d"," ","A","r","g","u","m","e","n","t",":","*","*">>
NoReasoning ==
    <<"N","o"," ","r","e","a","s","o","n","i","n","g"," ","p","r","o","v","i","d","e","d",".">>
NoFeedback ==
    <<"N","o"," ","f","e","e","d","b","a","c","k"," ","p","r","o","v","i","d","e","d",".">>
NoImproved ==
    <<"N","o"," ","i","m","p","r","o","v","e","d"," ","a","r","g","u","m","e","n","t"," ","p","r","o","v","i","d","e","d",".">>
\* 0.5, the default score
DefaultScore == <<5, 1>>

(***************************************************************************)
(* Characters.                                                             *)
(***************************************************************************)
\* A character outside the ones a TLA+ string can hold is written by its code
\* point, as the one-element string "U+0663".

\* the decimal digits of Unicode 14 (category Nd), by their value: what \d
\* matches in a str pattern and what float() reads as a digit
DigitsOf ==
    <<
      {
        "0", "U+0660", "U+06F0", "U+07C0", "U+0966", "U+09E6", "U+0A66",
        "U+0AE6", "U+0B66", "U+0BE6", "U+0C66", "U+0CE6", "U+0D66", "U+0DE6",
        "U+0E50", "U+0ED0", "U+0F20", "U+1040", "U+1090", "U+17E0", "U+1810",
        "U+1946", "U+19D0", "U+1A80", "U+1A90", "U+1B50", "U+1BB0", "U+1C40",
        "U+1C50", "U+A620", "U+A8D0", "U+A900", "U+A9D0", "U+A9F0", "U+AA50",
        "U+ABF0", "U+FF10", "U+104A0", "U+10D30", "U+11066", "U+110F0",
        "U+11136", "U+111D0", "U+112F0", "U+11450", "U+114D0", "U+11650",
        "U+116C0", "U+11730", "U+118E0", "U+11950", "U+11C50", "U+11D50",
        "U+11DA0", "U+16A60", "U+16AC0", "U+16B50", "U+1D7CE", "U+1D7D8",
        "U+1D7E2", "U+1D7EC", "U+1D7F6", "U+1E140", "U+1E2F0", "U+1E950",
        "U+1FBF0"},
      {
        "1", "U+0661", "U+06F1", "U+07C1", "U+0967", "U+09E7", "U+0A67",
        "U+0AE7", "U+0B67", "U+0BE7", "U+0C67", "U+0CE7", "U+0D67", "U+0DE7",
        "U+0E51", "U+0ED1", "U+0F21", "U+1041", "U+1091", "U+17E1", "U+1811",
        "U+1947", "U+19D1", "U+1A81", "U+1A91", "U+1B51", "U+1BB1", "U+1C41",
        "U+1C51", "U+A621", "U+A8D1", "U+A901", "U+A9D1", "U+A9F1", "U+AA51",
        "U+ABF1", "U+FF11", "U+104A1", "U+10D31", "U+11067", "U+110F1",
        "U+11137", "U+111D1", "U+112F1", "U+11451", "U+114D1", "U+11651",
        "U+116C1", "U+11731", "U+118E1", "U+11951", "U+11C51", "U+11D51",
        "U+11DA1", "U+16A61", "U+16AC1", "U+16B51", "U+1D7CF", "U+1D7D9",
        "U+1D7E3", "U+1D7ED", "U+1D7F7", "U+1E141", "U+1E2F1", "U+1E951",
        "U+1FBF1"},
      {
        "2", "U+0662", "U+06F2", "U+07C2", "U+0968", "U+09E8", "U+0A68",
        "U+0AE8", "U+0B68", "U+0BE8", "U+0C68", "U+0CE8", "U+0D68", "U+0DE8",
        "U+0E52", "U+0ED2", "U+0F22", "U+1042", "U+1092", "U+17E2", "U+1812",
        "U+1948", "U+19D2", "U+1A82", "U+1A92", "U+1B52", "U+1BB2", "U+1C42",
        "U+1C52", "U+A622", "U+A8D2", "U+A902", "U+A9D2", "U+A9F2", "U+AA52",
        "U+ABF2", "U+FF12", "U+104A2", "U+10D32", "U+11068", "U+110F2",
        "U+11138", "U+111D2", "U+112F2", "U+11452", "U+114D2", "U+11652",
        "U+116C2", "U+11732", "U+118E2", "U+11952", "U+11C52", "U+11D52",
        "U+11DA2", "U+16A62", "U+16AC2", "U+16B52", "U+1D7D0", "U+1D7DA",
        "U+1D7E4", "U+1D7EE", "U+1D7F8", "U+1E142", "U+1E2F2", "U+1E952",
        "U+1FBF2"},
      {
        "3", "U+0663", "U+06F3", "U+07C3", "U+0969", "U+09E9", "U+0A69",
        "U+0AE9", "U+0B69", "U+0BE9", "U+0C69", "U+0CE9", "U+0D69", "U+0DE9",
        "U+0E53", "U+0ED3", "U+0F23", "U+1043", "U+1093", "U+17E3", "U+1813",
        "U+1949", "U+19D3", "U+1A83", "U+1A93", "U+1B53", "U+1BB3", "U+1C43",
        "U+1C53", "U+A623", "U+A8D3", "U+A903", "U+A9D3", "U+A9F3", "U+AA53",
        "U+ABF3", "U+FF13", "U+104A3", "U+10D33", "U+11069", "U+110F3",
        "U+11139", "U+111D3", "U+112F3", "U+11453", "U+114D3", "U+11653",
        "U+116C3", "U+11733", "U+118E3", "U+11953", "U+11C53", "U+11D53",
        "U+11DA3", "U+16A63", "U+16AC3", "U+16B53", "U+1D7D1", "U+1D7DB",
        "U+1D7E5", "U+1D7EF", "U+1D7F9", "U+1E143", "U+1E2F3", "U+1E953",
        "U+1FBF3"},
      {
        "4", "U+0664", "U+06F4", "U+07C4", "U+096A", "U+09EA", "U+0A6A",
        "U+0AEA", "U+0B6A", "U+0BEA", "U+0C6A", "U+0CEA", "U+0D6A", "U+0DEA",
        "U+0E54", "U+0ED4", "U+0F24", "U+1044", "U+1094", "U+17E4", "U+1814",
        "U+194A", "U+19D4", "U+1A84", "U+1A94", "U+1B54", "U+1BB4", "U+1C44",
        "U+1C54", "U+A624", "U+A8D4", "U+A904", "U+A9D4", "U+A9F4", "U+AA54",
        "U+ABF4", "U+FF14", "U+104A4", "U+10D34", "U+1106A", "U+110F4",
        "U+1113A", "U+111D4", "U+112F4", "U+11454", "U+114D4", "U+11654",
        "U+116C4", "U+11734", "U+118E4", "U+11954", "U+11C54", "U+11D54",
        "U+11DA4", "U+16A64", "U+16AC4", "U+16B54", "U+1D7D2", "U+1D7DC",
        "U+1D7E6", "U+1D7F0", "U+1D7FA", "U+1E144", "U+1E2F4", "U+1E954",
        "U+1FBF4"},
      {
        "5", "U+0665", "U+06F5", "U+07C5", "U+096B", "U+09EB", "U+0A6B",
        "U+0AEB", "U+0B6B", "U+0BEB", "U+0C6B", "U+0CEB", "U+0D6B", "U+0DEB",
        "U+0E55", "U+0ED5", "U+0F25", "U+1045", "U+1095", "U+17E5", "U+1815",
        "U+194B", "U+19D5", "U+1A85", "U+1A95", "U+1B55", "U+1BB5", "U+1C45",
        "U+1C55", "U+A625", "U+A8D5", "U+A905", "U+A9D5", "U+A9F5", "U+AA55",
        "U+ABF5", "U+FF15", "U+104A5", "U+10D35", "U+1106B", "U+110F5",
        "U+1113B", "U+111D5", "U+112F5", "U+11455", "U+114D5", "U+11655",
        "U+116C5", "U+11735", "U+118E5", "U+11955", "U+11C55", "U+11D55",
        "U+11DA5", "U+16A65", "U+16AC5", "U+16B55", "U+1D7D3", "U+1D7DD",
        "U+1D7E7", "U+1D7F1", "U+1D7FB", "U+1E145", "U+1E2F5", "U+1E955",
        "U+1FBF5"},
      {
        "6", "U+0666", "U+06F6", "U+07C6", "U+096C", "U+09EC", "U+0A6C",
        "U+0AEC", "U+0B6C", "U+0BEC", "U+0C6C", "U+0CEC", "U+0D6C", "U+0DEC",
        "U+0E56", "U+0ED6", "U+0F26", "U+1046", "U+1096", "U+17E6", "U+1816",
        "U+194C", "U+19D6", "U+1A86", "U+1A96", "U+1B56", "U+1BB6", "U+1C46",
        "U+1C56", "U+A626", "U+A8D6", "U+A906", "U+A9D6", "U+A9F6", "U+AA56",
        "U+ABF6", "U+FF16", "U+104A6", "U+10D36", "U+1106C", "U+110F6",
        "U+1113C", "U+111D6", "U+112F6", "U+11456", "U+114D6", "U+11656",
        "U+116C6", "U+11736", "U+118E6", "U+11956", "U+11C56", "U+11D56",
        "U+11DA6", "U+16A66", "U+16AC6", "U+16B56", "U+1D7D4", "U+1D7DE",
        "U+1D7E8", "U+1D7F2", "U+1D7FC", "U+1E146", "U+1E2F6", "U+1E956",
        "U+1FBF6"},
      {
        "7", "U+0667", "U+06F7", "U+07C7", "U+096D", "U+09ED", "U+0A6D",
        "U+0AED", "U+0B6D", "U+0BED", "U+0C6D", "U+0CED", "U+0D6D", "U+0DED",
        "U+0E57", "U+0ED7", "U+0F27", "U+1047", "U+1097", "U+17E7", "U+1817",
        "U+194D", "U+19D7", "U+1A87", "U+1A97", "U+1B57", "U+1BB7", "U+1C47",
        "U+1C57", "U+A627", "U+A8D7", "U+A907", "U+A9D7", "U+A9F7", "U+AA57",
        "U+ABF7", "U+FF17", "U+104A7", "U+10D37", "U+1106D", "U+110F7",
        "U+1113D", "U+111D7", "U+112F7", "U+11457", "U+114D7", "U+11657",
        "U+116C7", "U+11737", "U+118E7", "U+11957", "U+11C57", "U+11D57",
        "U+11DA7", "U+16A67", "U+16AC7", "U+16B57", "U+1D7D5", "U+1D7DF",
        "U+1D7E9", "U+1D7F3", "U+1D7FD", "U+1E147", "U+1E2F7", "U+1E957",
        "U+1FBF7"},
      {
        "8", "U+0668", "U+06F8", "U+07C8", "U+096E", "U+09EE", "U+0A6E",
        "U+0AEE", "U+0B6E", "U+0BEE", "U+0C6E", "U+0CEE", "U+0D6E", "U+0DEE",
        "U+0E58", "U+0ED8", "U+0F28", "U+1048", "U+1098", "U+17E8", "U+1818",
        "U+194E", "U+19D8", "U+1A88", "U+1A98", "U+1B58", "U+1BB8", "U+1C48",
        "U+1C58", "U+A628", "U+A8D8", "U+A908", "U+A9D8", "U+A9F8", "U+AA58",
        "U+ABF8", "U+FF18", "U+104A8", "U+10D38", "U+1106E", "U+110F8",
        "U+1113E", "U+111D8", "U+112F8", "U+11458", "U+114D8", "U+11658",
        "U+116C8", "U+11738", "U+118E8", "U+11958", "U+11C58", "U+11D58",
        "U+11DA8", "U+16A68", "U+16AC8", "U+16B58", "U+1D7D6", "U+1D7E0",
        "U+1D7EA", "U+1D7F4", "U+1D7FE", "U+1E148", "U+1E2F8", "U+1E958",
        "U+1FBF8"},
      {
        "9", "U+0669", "U+06F9", "U+07C9", "U+096F", "U+09EF", "U+0A6F",
        "U+0AEF", "U+0B6F", "U+0BEF", "U+0C6F", "U+0CEF", "U+0D6F", "U+0DEF",
        "U+0E59", "U+0ED9", "U+0F29", "U+1049", "U+1099", "U+17E9", "U+1819",
        "U+194F", "U+19D9", "U+1A89", "U+1A99", "U+1B59", "U+1BB9", "U+1C49",
        "U+1C59", "U+A629", "U+A8D9", "U+A909", "U+A9D9", "U+A9F9", "U+AA59",
        "U+ABF9", "U+FF19", "U+104A9", "U+10D39", "U+1106F", "U+110F9",
        "U+1113F", "U+111D9", "U+112F9", "U+11459", "U+114D9", "U+11659",
        "U+116C9", "U+11739", "U+118E9", "U+11959", "U+11C59", "U+11D59",
        "U+11DA9", "U+16A69", "U+16AC9", "U+16B59", "U+1D7D7", "U+1D7E1",
        "U+1D7EB", "U+1D7F5", "U+1D7FF", "U+1E149", "U+1E2F9", "U+1E959",
        "U+1FBF9"}
    >>

Digits == UNION {DigitsOf[d + 1] : d \in 0..9}

\* \d
IsDigit(c) == c \in Digits

\* the white space of Unicode 14: what \s matches in a str pattern and what
\* str.strip() removes
Spaces ==
    {"\t", "\n", "U+000B", "\f", "\r", "U+001C", "U+001D", "U+001E", "U+001F",
     " ", "U+0085", "U+00A0", "U+1680", "U+2000", "U+2001", "U+2002",
     "U+2003", "U+2004", "U+2005", "U+2006", "U+2007", "U+2008", "U+2009",
     "U+200A", "U+2028", "U+2029", "U+202F", "U+205F", "U+3000"}

\* \s, and the characters str.strip() removes
IsSpace(c) == c \in Spaces

\* the value float() gives a digit
DigitVal(c) == CHOOSE d \in 0..9 : c \in DigitsOf[d + 1]

\* the characters of the pattern literals that have another case
Lower(c) ==
    CASE c = "R" -> "r" [] c = "S" -> "s" [] c = "F" -> "f"
      [] c = "I" -> "i" [] c = "A" -> "a" [] OTHER -> c

\* a pattern compiled with re.IGNORECASE would compare characters like this
CharEqIgnoreCase(p, c) == Lower(p) = Lower(c)

\* how a literal pattern character matches a text character: exactly
CharEq(p, c) == p = c

(***************************************************************************)
(* str.strip()                                                             *)
(***************************************************************************)
RECURSIVE LStripFrom(_, _)
LStripFrom(s, i) ==
    IF i <= Len(s) /\ IsSpace(s[i]) THEN LStripFrom(s, i + 1) ELSE i

RECURSIVE RStripTo(_, _)
RStripTo(s, j) ==
    IF j >= 1 /\ IsSpace(s[j]) THEN RStripTo(s, j - 1) ELSE j

\* a strip() that is forgotten
NoStrip(s) == s

Strip(s) == SubSeq(s, LStripFrom(s, 1), RStripTo(s, Len(s)))

(***************************************************************************)
(* Pieces of the regular expressions.                                      *)
(***************************************************************************)
\* the literal lit matches the text s at position i
MatchesAt(lit, s, i) ==
    /\ i >= 1
    /\ i + Len(lit) - 1 <= Len(s)
    /\ \A k \in 1..Len(lit) : CharEq(lit[k], s[i + k - 1])

\* re.search scans start positions left to right: the first position >= from
\* where lit matches, 0 when there is none
RECURSIVE Find(_, _, _)
Find(lit, s, from) ==
    IF from + Len(lit) - 1 > Len(s) THEN 0
    ELSE IF MatchesAt(lit, s, from) THEN from
    ELSE Find(lit, s, from + 1)

\* \s* and \d+ are greedy: the position after the longest run from p
RECURSIVE SpaceRunEnd(_, _)
SpaceRunEnd(s, p) ==
    IF p <= Len(s) /\ IsSpace(s[p]) THEN SpaceRunEnd(s, p + 1) ELSE p

RECURSIVE DigitRunEnd(_, _)
DigitRunEnd(s, p) ==
    IF p <= Len(s) /\ IsDigit(s[p]) THEN DigitRunEnd(s, p + 1) ELSE p

\* (.*)(?=term|\Z) would run to the end of the text
GreedyEnd(term, s, q) == Len(s) + 1

\* (.*?)(?=term|\Z) with re.DOTALL: the group grows one character at a time
\* from q and stops at the first position where term follows, or at the end
LazyEnd(term, s, q) ==
    LET t == Find(term, s, q) IN IF t = 0 THEN Len(s) + 1 ELSE t

(***************************************************************************)
(* float()                                                                 *)
(***************************************************************************)
RECURSIVE DecVal(_)
DecVal(ds) ==
    IF ds = <<>> THEN 0
    ELSE 10 * DecVal(SubSeq(ds, 1, Len(ds) - 1)) + DigitVal(ds[Len(ds)])

RECURSIVE Normalize(_)
Normalize(v) ==
    IF v[1] = 0 THEN <<0, 0>>
    ELSE IF v[2] > 0 /\ v[1] % 10 = 0 THEN Normalize(<<v[1] \div 10, v[2] - 1>>)
    ELSE v

\* float() that clamps the score into [0, 1]
FloatClamped(tok) ==
    LET dot  == Find(<<".">>, tok, 1)
        ip   == IF dot = 0 THEN tok ELSE SubSeq(tok, 1, dot - 1)
        fp   == IF dot = 0 THEN <<>> ELSE SubSeq(tok, dot + 1, Len(tok))
    IN  IF DecVal(ip) >= 1 THEN <<1, 0>> ELSE Normalize(<<DecVal(ip \o fp), Len(fp)>>)

\* float(tok) for tok a numeral digits or digits.digits
Float(tok) ==
    LET dot  == Find(<<".">>, tok, 1)
        ip   == IF dot = 0 THEN tok ELSE SubSeq(tok, 1, dot - 1)
        fp   == IF dot = 0 THEN <<>> ELSE SubSeq(tok, dot + 1, Len(tok))
    IN  Normalize(<<DecVal(ip \o fp), Len(fp)>>)

(***************************************************************************)
(* The four searches of evaluate_argument.  A search result is             *)
(* [found |-> BOOLEAN, group |-> text], as a match object or None.         *)
(***************************************************************************)
NoMatch == [found |-> FALSE, group |-> <<>>]

\* the literal prefix of the score pattern: the marker and one space
ScorePrefix == RATIONALITY \o <<" ">>

\* (\d+) alone: the numeral is cut at the decimal point
ScoreGroupIntOnly(s, p) == SubSeq(s, p, DigitRunEnd(s, p) - 1)

\* (\d+\.\d+|\d+) at position p, where s[p] is a digit: the first alternative
\* needs the whole digit run, a point and one more digit; the second takes
\* the digit run
ScoreGroup(s, p) ==
    LET e1 == DigitRunEnd(s, p)
    IN  IF e1 + 1 <= Len(s) /\ s[e1] = "." /\ IsDigit(s[e1 + 1])
        THEN SubSeq(s, p, DigitRunEnd(s, e1 + 1) - 1)
        ELSE SubSeq(s, p, e1 - 1)

\* re.search(r"\*\*Rationality Score:\*\* (\d+\.\d+|\d+)", s): the leftmost
\* occurrence of the prefix that a digit follows
RECURSIVE ScoreSearchFrom(_, _)
ScoreSearchFrom(s, from) ==
    LET i == Find(ScorePrefix, s, from)
        p == i + Len(ScorePrefix)
    IN  IF i = 0 THEN NoMatch
        ELSE IF p <= Len(s) /\ IsDigit(s[p])
             THEN [found |-> TRUE, group |-> ScoreGroup(s, p)]
        ELSE ScoreSearchFrom(s, i + 1)

ScoreSearch(s) == ScoreSearchFrom(s, 1)

\* the end of the text section searched from the start of the text
LazyEndFromStart(term, s, q) ==
    LET t == Find(term, s, 1) IN IF t = 0 THEN Len(s) + 1 ELSE t

\* the position where the group of marker\s*(.*?)(?=term|\Z) ends
SectionEnd(term, s, q) == LazyEnd(term, s, q)

\* re.search(marker \s*(.*?)(?=term|\Z), s, re.DOTALL): the leftmost marker;
\* with DOTALL the rest of the pattern matches from any position, so the
\* first occurrence of the marker is the match
SectionSearch(marker, term, s) ==
    LET i == Find(marker, s, 1)
        q == SpaceRunEnd(s, i + Len(marker))
    IN  IF i = 0 THEN NoMatch
        ELSE [found |-> TRUE, group |-> SubSeq(s, q, SectionEnd(term, s, q) - 1)]

\* re.search(r"\*\*Improved Argument:\*\*\s*(.*)", s, re.DOTALL)
TailSearch(marker, s) ==
    LET i == Find(marker, s, 1)
        q == SpaceRunEnd(s, i + Len(marker))
    IN  IF i = 0 THEN NoMatch
        ELSE [found |-> TRUE, group |-> SubSeq(s, q, Len(s))]

\* lines 119-135: the four fields cut from the reply text
Extract(text) ==
    LET ai_output               == Strip(text)
        rationality_score_match == ScoreSearch(ai_output)
        reasoning_match         == SectionSearch(REASONING, FEEDBACK, ai_output)
        feedback_match          == SectionSearch(FEEDBACK, IMPROVED, ai_output)
        improved_argument_match == TailSearch(IMPROVED, ai_output)
    IN  [rationality_score |->
             IF rationality_score_match.found
             THEN Float(rationality_score_match.group) ELSE DefaultScore,
         reason_for_score |->
             IF reasoning_match.found
             THEN Strip(reasoning_match.group) ELSE NoReasoning,
         feedback |->
             IF feedback_match.found
             THEN Strip(feedback_match.group) ELSE NoFeedback,
         improved_argument |->
             IF improved_argument_match.found
             THEN Strip(improved_argument_match.group) ELSE NoImproved]

(***************************************************************************)
(* The replies the generation service may return.                          *)
(***************************************************************************)
SeqsUpTo(S, n) == UNION {[1..k -> S] : k \in 0..n}

RECURSIVE Flatten(_)
Flatten(chunks) ==
    IF chunks = <<>> THEN <<>> ELSE Head(chunks) \o Flatten(Tail(chunks))

\* markers whose case or emphasis punctuation drifted
DriftCase == <<"*","*","f","e","e","d","b","a","c","k",":","*","*">>
DriftPunct ==
    <<"*","*","I","m","p","r","o","v","e","d"," ","A","r","g","u","m","e","n","t","*","*",":">>
\* a marker without its opening emphasis
HalfMarker == <<"F","e","e","d","b","a","c","k",":","*","*">>

ChunkPool ==
    {REASONING, FEEDBACK, IMPROVED, DriftCase, DriftPunct, HalfMarker,
     <<" ">>, <<"a">>, <<"U+00A0", "b", "\f">>}

\* free-form replies: any chunks in any order
FreeReplies == {Flatten(cs) : cs \in SeqsUpTo(ChunkPool, MaxChunks)}

FillPool == {<<" ">>, <<"o", "k", "*">>, <<" ", "0", ".", "9", "\n">>}

\* well-formed replies: the four markers once each and in order, with filler
\* between and after them
OrderedReplies ==
    {RATIONALITY \o Flatten(SubSeq(f, 1, c[1]))
        \o REASONING \o Flatten(SubSeq(f, c[1] + 1, c[2]))
        \o FEEDBACK \o Flatten(SubSeq(f, c[2] + 1, c[3]))
        \o IMPROVED \o Flatten(SubSeq(f, c[3] + 1, Len(f))) :
     <<f, c>> \in {fc \in SeqsUpTo(FillPool, MaxFill) \X [1..3 -> 0..MaxFill] :
                     /\ fc[2][1] <= fc[2][2] /\ fc[2][2] <= fc[2][3]
                     /\ fc[2][3] <= Len(fc[1])}}

ScoreChars == {" ", "0", "5", "U+0663", ".", "-"}

\* score replies: the score marker and a few characters, possibly after an
\* earlier score marker that no numeral follows
ScoreReplies ==
    {RATIONALITY \o t : t \in SeqsUpTo(ScoreChars, MaxTail)}
      \cup {RATIONALITY \o pre \o RATIONALITY \o t :
               pre \in {<<"-">>, <<" ", "U+FF15", "x">>, <<" ", "x", " ">>},
               t \in {<<>>, <<"5">>, <<" ", "0">>, <<" ", "5", "5">>}}

\* the example reply of the specification document
ExampleReply ==
    RATIONALITY \o <<" ", "0", ".", "9", " ", " ">> \o REASONING
      \o <<" ", "G", "o", "o", "d", " ", "l", "o", "g", "i", "c", " ">> \o FEEDBACK
      \o <<" ", "A", "d", "d", " ", "e", "v", "i", "d", "e", "n", "c", "e", " ">>
      \o IMPROVED
      \o <<" ", "R", "e", "f", "i", "n", "e", "d", " ", "t", "e", "x", "t", ".">>

\* the replies of the specification that runs both handlers side by side
FewReplies ==
    {<<>>, <<" ">>, <<"a">>, RATIONALITY \o <<" ", "5">>, ExampleReply}

\* replies that repeat the marker that ends a section
RepeatFill == {<<>>, <<" ", "a", " ">>, <<"*">>}

RepeatReplies ==
    {m[1] \o x \o m[2] \o y \o m[2] \o z :
        m \in {<<REASONING, FEEDBACK>>, <<FEEDBACK, IMPROVED>>},
        x \in RepeatFill, y \in RepeatFill, z \in RepeatFill}

\* replies with each white space character: alone, around the text of a
\* section, and between the score marker and a numeral
SpaceReplies ==
    UNION {{<<w>>, REASONING \o <<w, "a", w>> \o FEEDBACK \o <<w>>,
            IMPROVED \o <<w, "a", "\n", "b", w>>, RATIONALITY \o <<w, "5">>} :
           w \in Spaces}

\* replies with each decimal digit as the score, alone and in a numeral
DigitReplies ==
    UNION {{RATIONALITY \o <<" ", d>>, RATIONALITY \o <<" ", "1", d, ".", d, "5">>} :
           d \in Digits}

Replies ==
    FreeReplies \cup OrderedReplies \cup ScoreReplies \cup RepeatReplies
        \cup SpaceReplies \cup DigitReplies \cup {ExampleReply}

(***************************************************************************)
(* State.                                                                  *)
(***************************************************************************)
\* the two concurrent speech-to-text requests
Req == {"r1", "r2"}

\* what an upload can hold: two utterances, unintelligible sound, and a file
\* that is no WAV/AIFF/FLAC audio
Audio == {"speech_a", "speech_b", "noise", "not_audio"}
NoFile == "no_file"
Absent == "absent"

VARIABLES
    \* speech_to_text, per request
    spc,          \* position of the handler
    upload,       \* request.files["file"], or NoFile
    audio_data,   \* what recognizer.record(source) has read back
    fpos,         \* the offset of the request's open file handle, in blocks
    recognized,   \* how the call of recognize_google ended
    sresp,        \* the response sent
    \* the file system
    disk,         \* content of "input.wav", block by block
    \* evaluate_argument, one request
    epc,          \* position of the handler
    data,         \* request.get_json()
    gen,          \* what model.generate_content returned or raised
    eresp,        \* the response sent
    genCalls,     \* calls of model.generate_content made
    outstanding,  \* calls of model.generate_content not yet returned
    extractCalls, \* runs of lines 119-135
    elog          \* what the handler did, in order

svars == <<spc, upload, audio_data, fpos, recognized, sresp, disk>>
evars == <<epc, data, gen, eresp, genCalls, outstanding, extractCalls, elog>>
vars == <<spc, upload, audio_data, fpos, recognized, sresp, disk,
          epc, data, gen, eresp, genCalls, outstanding, extractCalls, elog>>

NoResponse == [status |-> 0, kind |-> "none", error |-> "", transcription |-> ""]

ErrorResponse(code, msg) ==
    [status |-> code, kind |-> "error", error |-> msg, transcription |-> ""]

\* an exception no handler catches: Flask answers 500
Unhandled == [status |-> 500, kind |-> "unhandled", error |-> "", transcription |-> ""]

(***************************************************************************)
(* speech_to_text (lines 39-58)                                            *)
(***************************************************************************)
\* the content of a file that holds the audio a in full: block after block
Whole(a) == [k \in 1..Blocks |-> a]

\* what recognize_google hears in the audio
Transcript(d) ==
    IF d = Whole("speech_a") THEN "hello"
    ELSE IF d = Whole("speech_b") THEN "world"
    ELSE "garbled"

\* file_path = "input.wav": the same path for every request
FilePath(r) == "input.wav"

\* the file f after block k was written with the audio a at its offset; what
\* lies between the old end of the file and the block is a hole of zero bytes
WriteAt(f, k, a) ==
    [i \in 1..(IF k > Len(f) THEN k ELSE Len(f)) |->
        IF i = k THEN a ELSE IF i <= Len(f) THEN f[i] ELSE "hole"]

\* lines 42-47: the upload is checked, and audio_file.save opens the file for
\* writing, which creates it or cuts it to length zero
SpeechSave(r) ==
    /\ spc[r] = "received"
    /\ IF upload[r] = NoFile
       THEN /\ sresp' = [sresp EXCEPT ![r] = ErrorResponse(400, "No file provided")]
            /\ spc' = [spc EXCEPT ![r] = "done"]
            /\ UNCHANGED <<disk, fpos>>
       ELSE /\ disk' = [disk EXCEPT ![FilePath(r)] = <<>>]
            /\ fpos' = [fpos EXCEPT ![r] = 0]
            /\ spc' = [spc EXCEPT ![r] = "saving"]
            /\ sresp' = sresp
    /\ UNCHANGED <<upload, audio_data, recognized>>
    /\ UNCHANGED evars

\* line 47: audio_file.save copies the upload block by block at the offset of
\* its own handle, and closes the file after the last block
SpeechWrite(r) ==
    /\ spc[r] = "saving"
    /\ disk' = [disk EXCEPT ![FilePath(r)] = WriteAt(@, fpos[r] + 1, upload[r])]
    /\ fpos' = [fpos EXCEPT ![r] = @ + 1]
    /\ spc' = [spc EXCEPT ![r] = IF fpos[r] + 1 = Blocks THEN "saved" ELSE "saving"]
    /\ UNCHANGED <<upload, audio_data, recognized, sresp>>
    /\ UNCHANGED evars

\* the header at the start of the file is one of an audio file
HeaderReadable(f) == Len(f) >= 1 /\ f[1] \in {"speech_a", "speech_b", "noise"}

\* line 51: sr.AudioFile opens the file and reads its header; it raises
\* ValueError for a file that is no audio, which nothing catches
SpeechOpen(r) ==
    /\ spc[r] = "saved"
    /\ IF ~HeaderReadable(disk[FilePath(r)])
       THEN /\ sresp' = [sresp EXCEPT ![r] = Unhandled]
            /\ spc' = [spc EXCEPT ![r] = "done"]
            /\ UNCHANGED <<audio_data, fpos>>
       ELSE /\ audio_data' = [audio_data EXCEPT ![r] = <<>>]
            /\ fpos' = [fpos EXCEPT ![r] = 0]
            /\ spc' = [spc EXCEPT ![r] = "opened"]
            /\ sresp' = sresp
    /\ UNCHANGED <<upload, disk, recognized>>
    /\ UNCHANGED evars

\* line 52: recognizer.record reads the file block by block at the offset of
\* its handle, until the frames the header announced are read or a read finds
\* the end of the file
SpeechRecord(r) ==
    /\ spc[r] = "opened"
    /\ IF fpos[r] + 1 <= Len(disk[FilePath(r)])
       THEN /\ audio_data' = [audio_data EXCEPT ![r] =
                                 Append(@, disk[FilePath(r)][fpos[r] + 1])]
            /\ fpos' = [fpos EXCEPT ![r] = @ + 1]
            /\ spc' = [spc EXCEPT ![r] =
                          IF fpos[r] + 1 = Blocks THEN "recorded" ELSE "opened"]
       ELSE /\ spc' = [spc EXCEPT ![r] = "recorded"]
            /\ UNCHANGED <<audio_data, fpos>>
    /\ UNCHANGED <<upload, disk, recognized, sresp>>
    /\ UNCHANGED evars

\* the status sent for each exception of recognize_google, swapped
SpeechErrorSwapped(exc) ==
    IF exc = "UnknownValueError"
    THEN ErrorResponse(500, "Speech Recognition API unavailable")
    ELSE ErrorResponse(400, "Could not understand audio")

\* lines 55-58: the response for each exception of recognize_google
SpeechError(exc) ==
    IF exc = "UnknownValueError"
    THEN ErrorResponse(400, "Could not understand audio")
    ELSE ErrorResponse(500, "Speech Recognition API unavailable")

\* lines 53-58: the recognition service answers; it is unavailable or not, it
\* makes out an utterance recorded in full and cannot make out noise, and
\* for audio that is cut short or mixed from several uploads it may do either
SpeechRecognize(r) ==
    /\ spc[r] = "recorded"
    /\ \E available \in BOOLEAN, clear \in BOOLEAN :
         LET outcome ==
               IF ~available THEN "RequestError"
               ELSE IF audio_data[r] \in {Whole("speech_a"), Whole("speech_b")}
                    THEN "returned"
               ELSE IF audio_data[r] = Whole("noise") THEN "UnknownValueError"
               ELSE IF clear THEN "returned"
               ELSE "UnknownValueError"
         IN  /\ recognized' = [recognized EXCEPT ![r] = outcome]
             /\ sresp' = [sresp EXCEPT ![r] =
                   IF outcome = "returned"
                   THEN [status |-> 200, kind |-> "transcription", error |-> "",
                         transcription |-> Transcript(audio_data[r])]
                   ELSE SpeechError(outcome)]
    /\ spc' = [spc EXCEPT ![r] = "done"]
    /\ UNCHANGED <<upload, audio_data, disk, fpos>>
    /\ UNCHANGED evars

SpeechNext ==
    \E r \in Req :
        \/ SpeechSave(r)
        \/ SpeechWrite(r)
        \/ SpeechOpen(r)
        \/ SpeechRecord(r)
        \/ SpeechRecognize(r)

(***************************************************************************)
(* evaluate_argument (lines 60-145)                                        *)
(***************************************************************************)
\* what request.get_json() returns, by its JSON type: null (None), false or
\* 0 ("falsy"), true or another number ("truthy"), and an object, an array or
\* a string.  keys is what `in` finds of "text" and "topic": the keys of an
\* object, the elements of an array, the substrings of a string.  empty says
\* that an object, an array or a string holds nothing at all; one that is
\* not empty may still hold neither "text" nor "topic".
Containers == {"object", "array", "string"}

Bodies ==
    [type : Containers, empty : {FALSE}, keys : SUBSET {"text", "topic"}]
        \cup [type : Containers, empty : {TRUE}, keys : {{}}]
        \cup [type : {"null", "falsy", "truthy"}, empty : {FALSE}, keys : {{}}]

\* line 64: not data
Falsy(d) == d.type \in {"null", "falsy"} \/ (d.type \in Containers /\ d.empty)

\* line 64: `"text" not in data` raises TypeError for a number or true
MembershipRaises(d) == ~Falsy(d) /\ d.type = "truthy"

\* lines 67-68: data["topic"] and data["text"] raise TypeError for an array
\* and for a string
SubscriptRaises(d) == d.type \in {"array", "string"}

\* a check that asks for the text only
ValidBodyTextOnly(d) == ~Falsy(d) /\ d.type \in Containers /\ "text" \in d.keys

\* line 64, negated: not (not data or "text" not in data or "topic" not in data)
ValidBody(d) ==
    ~Falsy(d) /\ d.type \in Containers /\ "text" \in d.keys /\ "topic" \in d.keys

\* a check made on the stripped text
IsBlockedStripped(g) == ~g.parts \/ Strip(g.text) = <<>>

\* line 114: not response.parts or not response.text
IsBlocked(g) == ~g.parts \/ g.text = <<>>

NoGen == [kind |-> "none", parts |-> FALSE, text |-> <<>>]

\* lines 115-117; the message begins with the warning sign U+26A0 U+FE0F,
\* written here by its code points
BlockedMessage ==
    "U+26A0U+FE0F AI could not generate a response due to content restrictions. Please rephrase your argument."

\* lines 140-145: the success payload
FeedbackResponse(f) ==
    [status |-> 200, kind |-> "feedback", error |-> "", transcription |-> "",
     rationality_score |-> f.rationality_score,
     reason_for_score |-> f.reason_for_score,
     feedback |-> f.feedback,
     improved_argument |-> f.improved_argument]

\* lines 63-111: the body is checked, topic and text are taken from it, the
\* prompt is built and the call started.  Lines 64-68 stand before the try:
\* a TypeError raised there is caught by nothing and Flask answers 500.
EvalValidate ==
    /\ epc = "received"
    /\ IF MembershipRaises(data)
       THEN /\ eresp' = Unhandled
            /\ epc' = "done"
            /\ elog' = elog \o <<"raise">>
            /\ UNCHANGED <<genCalls, outstanding>>
       ELSE IF ~ValidBody(data)
       THEN /\ eresp' = ErrorResponse(400, "No text or topic provided")
            /\ epc' = "done"
            /\ elog' = elog \o <<"respond">>
            /\ UNCHANGED <<genCalls, outstanding>>
       ELSE IF SubscriptRaises(data)
       THEN /\ eresp' = Unhandled
            /\ epc' = "done"
            /\ elog' = elog \o <<"raise">>
            /\ UNCHANGED <<genCalls, outstanding>>
       ELSE /\ genCalls' = genCalls + 1
            /\ outstanding' = outstanding + 1
            /\ epc' = "generating"
            /\ elog' = elog \o <<"generate_call">>
            /\ eresp' = eresp
    /\ UNCHANGED <<data, gen, extractCalls>>
    /\ UNCHANGED svars

\* lines 111, 137-138: model.generate_content raises
EvalGenerateRaises ==
    /\ epc = "generating"
    /\ gen' = [kind |-> "raised", parts |-> FALSE, text |-> <<>>]
    /\ outstanding' = outstanding - 1
    /\ eresp' = ErrorResponse(500, "str(e)")
    /\ epc' = "done"
    /\ elog' = elog \o <<"generate_raise", "respond">>
    /\ UNCHANGED <<data, genCalls, extractCalls>>
    /\ UNCHANGED svars

\* lines 111-145: model.generate_content returns a response, with parts or
\* without, and the handler runs to its end
EvalGenerateReturns(replies) ==
    /\ epc = "generating"
    /\ \E parts \in BOOLEAN, text \in replies :
         LET response == [kind |-> "response", parts |-> parts, text |-> text]
         IN  /\ parts \/ text = <<>>
             /\ gen' = response
             /\ IF IsBlocked(response)
                THEN /\ eresp' = ErrorResponse(400, BlockedMessage)
                     /\ elog' = elog \o <<"generate_return", "respond">>
                     /\ extractCalls' = extractCalls
                ELSE /\ eresp' = FeedbackResponse(Extract(response.text))
                     /\ elog' = elog \o <<"generate_return", "extract", "respond">>
                     /\ extractCalls' = extractCalls + 1
    /\ outstanding' = outstanding - 1
    /\ epc' = "done"
    /\ UNCHANGED <<data, genCalls>>
    /\ UNCHANGED svars

(***************************************************************************)
(* Specifications.                                                         *)
(***************************************************************************)
SpeechArrived ==
    /\ spc = [r \in Req |-> "received"]
    /\ upload \in [Req -> Audio \cup {NoFile}]
    /\ audio_data = [r \in Req |-> Absent]
    /\ fpos = [r \in Req |-> 0]
    /\ recognized = [r \in Req |-> "not_called"]
    /\ sresp = [r \in Req |-> NoResponse]
    /\ disk = [p \in {"input.wav"} |-> Absent]

SpeechIdle ==
    /\ spc = [r \in Req |-> "idle"]
    /\ upload = [r \in Req |-> NoFile]
    /\ audio_data = [r \in Req |-> Absent]
    /\ fpos = [r \in Req |-> 0]
    /\ recognized = [r \in Req |-> "not_called"]
    /\ sresp = [r \in Req |-> NoResponse]
    /\ disk = [p \in {"input.wav"} |-> Absent]

EvalArrived ==
    /\ epc = "received"
    /\ data \in Bodies
    /\ gen = NoGen
    /\ eresp = NoResponse
    /\ genCalls = 0
    /\ outstanding = 0
    /\ extractCalls = 0
    /\ elog = <<>>

EvalIdle ==
    /\ epc = "idle"
    /\ data = [type |-> "null", empty |-> FALSE, keys |-> {}]
    /\ gen = NoGen
    /\ eresp = NoResponse
    /\ genCalls = 0
    /\ outstanding = 0
    /\ extractCalls = 0
    /\ elog = <<>>

\* the server with two speech-to-text requests and one evaluate-argument
\* request in flight
Init == SpeechArrived /\ EvalArrived

Next ==
    \/ SpeechNext
    \/ EvalValidate
    \/ EvalGenerateRaises
    \/ EvalGenerateReturns(FewReplies)

Spec == Init /\ [][Next]_vars

\* one evaluate-argument request, over all the replies of the model
InitEval == SpeechIdle /\ EvalArrived

NextEval ==
    \/ EvalValidate
    \/ EvalGenerateRaises
    \/ EvalGenerateReturns(Replies)

SpecEval == InitEval /\ [][NextEval]_vars

\* two concurrent speech-to-text requests
InitSpeech == SpeechArrived /\ EvalIdle

NextSpeech == SpeechNext

SpecSpeech == InitSpeech /\ [][NextSpeech]_vars

(***************************************************************************)
(* The notions the claims are stated in.  They are defined on the text     *)
(* itself, by substring and by position, and use none of the operators     *)
(* that model the handlers.                                                *)
(***************************************************************************)
\* white space and decimal digits are the character classes of Unicode
Whitespace == Spaces
NumeralChars == Digits

Least(S) == CHOOSE x \in S : \A y \in S : x <= y
Greatest(S) == CHOOSE x \in S : \A y \in S : x >= y

\* the positions where lit occurs in s as a substring
Occurrences(lit, s) ==
    {i \in 1..(Len(s) - Len(lit) + 1) :
        s[i] = lit[1] /\ SubSeq(s, i, i + Len(lit) - 1) = lit}

Occurs(lit, s) == Occurrences(lit, s) # {}

\* s without the whitespace around it
Trimmed(s) ==
    LET ink == {i \in 1..Len(s) : s[i] \notin Whitespace}
    IN  IF ink = {} THEN <<>> ELSE SubSeq(s, Least(ink), Greatest(ink))

\* the position after the first occurrence of the marker own
SpanFrom(own, s) == Least(Occurrences(own, s)) + Len(own)

\* the position of the next occurrence of term at or after a, or the end
NextTerm(term, s, a) ==
    LET later == {i \in Occurrences(term, s) : i >= a}
    IN  IF later = {} THEN Len(s) + 1 ELSE Least(later)

\* the trimmed text from the first marker own forward to the next term
ForwardSpan(own, term, s) ==
    Trimmed(SubSeq(s, SpanFrom(own, s), NextTerm(term, s, SpanFrom(own, s)) - 1))

\* the trimmed text from the first marker own to the end of the text
TailSpan(own, s) == Trimmed(SubSeq(s, SpanFrom(own, s), Len(s)))

\* the handler has answered / has answered with the four fields
Answered == epc = "done"
Extracted == epc = "done" /\ eresp.kind = "feedback"

\* the generation service returned a text that is not empty
GotText == gen.kind = "response" /\ gen.parts /\ gen.text # <<>>

TextDefaults ==
    /\ eresp.reason_for_score = NoReasoning
    /\ eresp.feedback = NoFeedback
    /\ eresp.improved_argument = NoImproved

(***************************************************************************)
(* C1                                                                      *)
(***************************************************************************)
\* C1: for every reply text the extraction ends without an error in a record
\* with the four fields, and every field whose exact marker does not occur in
\* the reply holds its fallback: 0.5, "No reasoning provided.", "No feedback
\* provided.", "No improved argument provided."
C1_TotalWithFallbacks ==
    (Answered /\ GotText) =>
        /\ eresp.kind = "feedback"
        /\ eresp.status = 200
        /\ {"rationality_score", "reason_for_score", "feedback",
            "improved_argument"} \subseteq DOMAIN eresp
        /\ ~Occurs(RATIONALITY, gen.text) => eresp.rationality_score = <<5, 1>>
        /\ ~Occurs(REASONING, gen.text) => eresp.reason_for_score = NoReasoning
        /\ ~Occurs(FEEDBACK, gen.text) => eresp.feedback = NoFeedback
        /\ ~Occurs(IMPROVED, gen.text) => eresp.improved_argument = NoImproved

\* a reply whose Feedback marker drifted to lower case and whose Improved
\* Argument marker drifted in punctuation, beside an exact Reasoning marker
C1_Witness ==
    /\ Extracted
    /\ Occurs(DriftCase, gen.text) /\ ~Occurs(FEEDBACK, gen.text)
    /\ Occurs(DriftPunct, gen.text) /\ ~Occurs(IMPROVED, gen.text)
    /\ Occurs(REASONING, gen.text)
    /\ eresp.feedback = NoFeedback
    /\ eresp.improved_argument = NoImproved
    /\ eresp.reason_for_score # NoReasoning

(***************************************************************************)
(* C2                                                                      *)
(***************************************************************************)
\* the four markers occur once each, in the expected order, one after the
\* end of the other
WellFormed(s) ==
    /\ \A m \in {RATIONALITY, REASONING, FEEDBACK, IMPROVED} :
          Cardinality(Occurrences(m, s)) = 1
    /\ SpanFrom(RATIONALITY, s) <= Least(Occurrences(REASONING, s))
    /\ SpanFrom(REASONING, s) <= Least(Occurrences(FEEDBACK, s))
    /\ SpanFrom(FEEDBACK, s) <= Least(Occurrences(IMPROVED, s))

GoodLogic == <<"G", "o", "o", "d", " ", "l", "o", "g", "i", "c">>
AddEvidence == <<"A", "d", "d", " ", "e", "v", "i", "d", "e", "n", "c", "e">>
RefinedText == <<"R", "e", "f", "i", "n", "e", "d", " ", "t", "e", "x", "t", ".">>

\* C2: for a reply with the four markers once each and in order,
\* reason_for_score is the trimmed text between the Reasoning and the Feedback
\* marker, feedback the trimmed text between the Feedback and the Improved
\* Argument marker, improved_argument the trimmed text after the Improved
\* Argument marker; the example reply gives 0.9, "Good logic", "Add evidence",
\* "Refined text."
C2_OrderedMarkersGiveSpans ==
    (Extracted /\ WellFormed(gen.text)) =>
        /\ eresp.reason_for_score =
              Trimmed(SubSeq(gen.text, SpanFrom(REASONING, gen.text),
                             Least(Occurrences(FEEDBACK, gen.text)) - 1))
        /\ eresp.feedback =
              Trimmed(SubSeq(gen.text, SpanFrom(FEEDBACK, gen.text),
                             Least(Occurrences(IMPROVED, gen.text)) - 1))
        /\ eresp.improved_argument =
              Trimmed(SubSeq(gen.text, SpanFrom(IMPROVED, gen.text), Len(gen.text)))
        /\ gen.text = ExampleReply =>
              /\ eresp.rationality_score = <<9, 1>>
              /\ eresp.reason_for_score = GoodLogic
              /\ eresp.feedback = AddEvidence
              /\ eresp.improved_argument = RefinedText

\* the example reply has been cut into its four fields
C2_Witness ==
    /\ Extracted
    /\ gen.text = ExampleReply
    /\ WellFormed(gen.text)
    /\ eresp.reason_for_score = GoodLogic
    /\ eresp.improved_argument = RefinedText

(***************************************************************************)
(* Numerals, for C3 and C9.                                                *)
(***************************************************************************)
RECURSIVE Pow10(_)
Pow10(n) == IF n = 0 THEN 1 ELSE 10 * Pow10(n - 1)

\* digits, or digits, a point and digits
IsUnsigned(s) ==
    LET dots == {i \in 1..Len(s) : s[i] = "."}
    IN  /\ s # <<>>
        /\ \A i \in 1..Len(s) : s[i] \in NumeralChars \/ s[i] = "."
        /\ Cardinality(dots) <= 1
        /\ 1 \notin dots /\ Len(s) \notin dots

\* an unsigned numeral, or one with a minus sign
IsNumber(s) == IsUnsigned(s) \/ (Len(s) >= 2 /\ s[1] = "-" /\ IsUnsigned(Tail(s)))

\* the longest prefix of s that is a number / an unsigned numeral
NumberPrefix(s) ==
    LET ns == {n \in 1..Len(s) : IsNumber(SubSeq(s, 1, n))}
    IN  IF ns = {} THEN <<>> ELSE SubSeq(s, 1, Greatest(ns))

UnsignedPrefix(s) ==
    LET ns == {n \in 1..Len(s) : IsUnsigned(SubSeq(s, 1, n))}
    IN  IF ns = {} THEN <<>> ELSE SubSeq(s, 1, Greatest(ns))

\* the characters of s up to the first whitespace
FirstWord(s) ==
    LET ws == {i \in 1..Len(s) : s[i] \in Whitespace}
    IN  IF ws = {} THEN s ELSE SubSeq(s, 1, Least(ws) - 1)

\* the number the digits of s spell, the point left out
RECURSIVE NatOf(_)
NatOf(s) ==
    IF s = <<>> THEN 0
    ELSE IF s[Len(s)] \in NumeralChars
         THEN 10 * NatOf(SubSeq(s, 1, Len(s) - 1))
                + (CHOOSE d \in 0..9 : s[Len(s)] \in DigitsOf[d + 1])
    ELSE NatOf(SubSeq(s, 1, Len(s) - 1))

\* how many digits follow the point of s
FracLen(s) ==
    LET dots == {i \in 1..Len(s) : s[i] = "."}
    IN  IF dots = {} THEN 0 ELSE Len(s) - Least(dots)

\* the float v = <<m, e>> is the value of the number s: m / 10^e = s
Denotes(v, s) ==
    v[1] * Pow10(FracLen(s))
        = (IF s[1] = "-" THEN 0 - 1 ELSE 1) * NatOf(s) * Pow10(v[2])

\* what follows the first score marker, with the whitespace before it and
\* without it
AfterMarker(s) == SubSeq(s, SpanFrom(RATIONALITY, s), Len(s))
AfterMarkerAndSpace(s) ==
    LET rest == AfterMarker(s)
        ink  == {i \in 1..Len(rest) : rest[i] \notin Whitespace}
    IN  IF ink = {} THEN <<>> ELSE SubSeq(rest, Least(ink), Len(rest))

\* the occurrences of the score marker that exactly one space and then a
\* digit follow
ScoreSites(s) ==
    {i \in Occurrences(RATIONALITY, s) :
        /\ i + Len(RATIONALITY) + 1 <= Len(s)
        /\ s[i + Len(RATIONALITY)] = " "
        /\ s[i + Len(RATIONALITY) + 1] \in NumeralChars}

\* the reply is the score marker, one space and an unsigned numeral
MarkerAndNumberOnly(s) ==
    LET t == Trimmed(s)
    IN  /\ Len(t) > Len(RATIONALITY) + 1
        /\ SubSeq(t, 1, Len(RATIONALITY) + 1) = RATIONALITY \o <<" ">>
        /\ IsUnsigned(SubSeq(t, Len(RATIONALITY) + 2, Len(t)))

(***************************************************************************)
(* C3                                                                      *)
(***************************************************************************)
\* C3 as stated: the score is the value of the numeric token that follows the
\* score marker, and it is 0.5 when there is no marker or when what follows
\* the marker is no number; after a reply of the marker and a number only,
\* the three text fields are at their defaults.  (Replies with the marker
\* twice are left out, and the token is the longest number that starts what
\* follows the marker, whitespace skipped.)
C3_AsStated ==
    (Extracted /\ Cardinality(Occurrences(RATIONALITY, gen.text)) <= 1) =>
        /\ IF /\ Occurs(RATIONALITY, gen.text)
              /\ NumberPrefix(AfterMarkerAndSpace(gen.text)) # <<>>
           THEN Denotes(eresp.rationality_score,
                        NumberPrefix(AfterMarkerAndSpace(gen.text)))
           ELSE eresp.rationality_score = <<5, 1>>
        /\ MarkerAndNumberOnly(gen.text) => TextDefaults

\* C3 as amended: the score is the value of the unsigned decimal numeral
\* (digits, or digits, a point and digits) at the first occurrence of the
\* score marker that exactly one space and then a digit follow, and it is 0.5
\* when no occurrence of the marker is followed so; after a reply of the
\* marker, one space and such a numeral only, the three text fields are at
\* their defaults.
C3_UnsignedNumeralAfterOneSpace ==
    Extracted =>
        /\ IF ScoreSites(gen.text) # {}
           THEN Denotes(eresp.rationality_score,
                        UnsignedPrefix(SubSeq(gen.text,
                            Least(ScoreSites(gen.text)) + Len(RATIONALITY) + 1,
                            Len(gen.text))))
           ELSE eresp.rationality_score = <<5, 1>>
        /\ MarkerAndNumberOnly(gen.text) => TextDefaults

\* a reply with the marker twice, the first followed by a sign and the second
\* by " 0": the score is 0, and a reply of the marker and 5.5 only
C3_Witness ==
    /\ Extracted
    /\ \/ /\ Cardinality(Occurrences(RATIONALITY, gen.text)) = 2
          /\ Least(ScoreSites(gen.text)) > 1
          /\ eresp.rationality_score = <<0, 0>>
       \/ /\ gen.text = RATIONALITY \o <<" ", "5", ".", "5">>
          /\ eresp.rationality_score = <<55, 1>>
          /\ TextDefaults

(***************************************************************************)
(* C9                                                                      *)
(***************************************************************************)
\* C9 as stated: whenever the token after the score marker is a non-negative
\* decimal number, that value is returned, unclamped
C9_AsStated ==
    (/\ Extracted
     /\ Occurs(RATIONALITY, gen.text)
     /\ IsUnsigned(FirstWord(AfterMarkerAndSpace(gen.text))))
        => Denotes(eresp.rationality_score, FirstWord(AfterMarkerAndSpace(gen.text)))

\* the first score marker is followed by exactly one space and then by a
\* token that is an unsigned decimal numeral
OneSpaceThenNumeral(s) ==
    /\ Occurs(RATIONALITY, s)
    /\ AfterMarker(s) # <<>>
    /\ Head(AfterMarker(s)) = " "
    /\ IsUnsigned(FirstWord(Tail(AfterMarker(s))))

\* C9 as amended: whenever the score marker is followed by exactly one space
\* and then by a token that is a non-negative decimal numeral, that value is
\* returned, unclamped, also when it is greater than 1.0
C9_UnclampedAfterOneSpace ==
    (Extracted /\ OneSpaceThenNumeral(gen.text))
        => Denotes(eresp.rationality_score, FirstWord(Tail(AfterMarker(gen.text))))

\* a score greater than 1.0 has been returned
C9_Witness ==
    /\ Extracted
    /\ OneSpaceThenNumeral(gen.text)
    /\ eresp.rationality_score[1] > Pow10(eresp.rationality_score[2])

(***************************************************************************)
(* C4                                                                      *)
(***************************************************************************)
AllDefaults ==
    /\ eresp.kind = "feedback"
    /\ eresp.status = 200
    /\ eresp.rationality_score = <<5, 1>>
    /\ TextDefaults

\* C4 as stated: when the reply text of the generation service is the empty
\* string, the result is the record of the four defaults, with score 0.5, and
\* no error
C4_AsStated ==
    (Answered /\ gen.kind = "response" /\ gen.text = <<>>) => AllDefaults

\* C4 as amended: when the reply text is not empty and strips to the empty
\* string (it is whitespace only), the result is the record of the four
\* defaults, with score 0.5; when the reply text is the empty string, the
\* result is the content-restriction error with status 400
C4_BlankReplyGivesDefaults ==
    /\ (Answered /\ GotText /\ Trimmed(gen.text) = <<>>) => AllDefaults
    /\ (Answered /\ gen.kind = "response" /\ gen.text = <<>>) =>
          /\ eresp.kind = "error"
          /\ eresp.status = 400
          /\ eresp.error = BlockedMessage

\* a reply of whitespace only has been answered with the four defaults
C4_Witness ==
    /\ Answered /\ GotText
    /\ Trimmed(gen.text) = <<>>
    /\ AllDefaults

(***************************************************************************)
(* C5                                                                      *)
(***************************************************************************)
\* some marker occurs before a marker that the layout puts before it
OutOfOrder(s) ==
    \E p \in {<<RATIONALITY, REASONING>>, <<RATIONALITY, FEEDBACK>>,
              <<RATIONALITY, IMPROVED>>, <<REASONING, FEEDBACK>>,
              <<REASONING, IMPROVED>>, <<FEEDBACK, IMPROVED>>} :
        \E i \in Occurrences(p[1], s), j \in Occurrences(p[2], s) : j < i

\* each text field is the trimmed text from its first marker forward to the
\* next terminating marker or the end, or its default without its marker
FieldsAreForwardSpans ==
    /\ eresp.reason_for_score =
          IF Occurs(REASONING, gen.text)
          THEN ForwardSpan(REASONING, FEEDBACK, gen.text) ELSE NoReasoning
    /\ eresp.feedback =
          IF Occurs(FEEDBACK, gen.text)
          THEN ForwardSpan(FEEDBACK, IMPROVED, gen.text) ELSE NoFeedback
    /\ eresp.improved_argument =
          IF Occurs(IMPROVED, gen.text)
          THEN TailSpan(IMPROVED, gen.text) ELSE NoImproved

\* C5: for a reply whose markers are out of the expected order, each text
\* field is its nearest forward span: the trimmed text from its own marker to
\* the next occurrence of its terminating marker after it, or to the end of
\* the text; and its default when it has no such span
C5_OutOfOrderForwardSpans ==
    (Extracted /\ OutOfOrder(gen.text)) => FieldsAreForwardSpans

\* the Feedback marker came before the Reasoning marker, and both fields
\* hold text
C5_Witness ==
    /\ Extracted
    /\ Occurs(REASONING, gen.text) /\ Occurs(FEEDBACK, gen.text)
    /\ Least(Occurrences(FEEDBACK, gen.text)) < Least(Occurrences(REASONING, gen.text))
    /\ eresp.reason_for_score = <<"a">>
    /\ Len(eresp.feedback) > Len(REASONING)

(***************************************************************************)
(* C10                                                                     *)
(***************************************************************************)
\* C10: for every reply, reason_for_score never contains the Feedback marker
\* and feedback never contains the Improved Argument marker: each span stops
\* at the first occurrence of its terminating marker after its own marker
C10_SpansStopAtFirstTerminator ==
    Extracted =>
        /\ ~Occurs(FEEDBACK, eresp.reason_for_score)
        /\ ~Occurs(IMPROVED, eresp.feedback)
        /\ Occurs(REASONING, gen.text) =>
              eresp.reason_for_score = ForwardSpan(REASONING, FEEDBACK, gen.text)
        /\ Occurs(FEEDBACK, gen.text) =>
              eresp.feedback = ForwardSpan(FEEDBACK, IMPROVED, gen.text)

\* the Feedback marker occurs twice after the Reasoning marker, with text
\* before the first
C10_Witness ==
    /\ Extracted
    /\ Occurs(REASONING, gen.text)
    /\ Cardinality({i \in Occurrences(FEEDBACK, gen.text) :
                      i >= SpanFrom(REASONING, gen.text)}) >= 2
    /\ eresp.reason_for_score # <<>>

(***************************************************************************)
(* C6                                                                      *)
(***************************************************************************)
\* the generation was blocked: a response without parts or without text
GenBlocked == gen.kind = "response" /\ (~gen.parts \/ gen.text = <<>>)

\* C6: every upstream failure is answered with an error and never with a
\* success payload: speech that is not understood with status 400, the speech
\* service being unavailable with 500, a blocked generation with 400, an
\* exception of the generation with 500; none of them with a transcription
\* or with the four fields
C6_FailuresAreErrors ==
    /\ \A r \in Req : spc[r] = "done" =>
          /\ recognized[r] = "UnknownValueError" =>
                sresp[r].kind = "error" /\ sresp[r].status = 400
          /\ recognized[r] = "RequestError" =>
                sresp[r].kind = "error" /\ sresp[r].status = 500
          /\ recognized[r] # "returned" =>
                /\ sresp[r].kind \in {"error", "unhandled"}
                /\ sresp[r].status \in {400, 500}
                /\ sresp[r].transcription = ""
    /\ Answered =>
          /\ GenBlocked => eresp.kind = "error" /\ eresp.status = 400
          /\ gen.kind = "raised" => eresp.kind = "error" /\ eresp.status = 500
          /\ (GenBlocked \/ gen.kind = "raised") =>
                "rationality_score" \notin DOMAIN eresp

\* one request was not understood, the other found the service unavailable,
\* and the generation was blocked; all three have been answered
C6_Witness ==
    /\ \E r \in Req : spc[r] = "done" /\ recognized[r] = "UnknownValueError"
                        /\ sresp[r].status = 400
    /\ \E r \in Req : spc[r] = "done" /\ recognized[r] = "RequestError"
                        /\ sresp[r].status = 500
    /\ Answered /\ GenBlocked /\ eresp.status = 400

(***************************************************************************)
(* C7                                                                      *)
(***************************************************************************)
\* the body is a JSON object with a text and a topic
BodyComplete == data.type = "object" /\ {"text", "topic"} \subseteq data.keys

\* the body is an array or a string that holds "text" and "topic", or it is
\* true or a number other than 0
BodyMistyped ==
    \/ data.type \in {"array", "string"} /\ {"text", "topic"} \subseteq data.keys
    \/ data.type = "truthy"

\* C7 as stated: every path of evaluate_argument runs the extraction exactly
\* once, on one full generation reply, with at most one generation call
\* outstanding, and answers only after the extraction
C7_AsStated ==
    /\ outstanding <= 1
    /\ Answered =>
          /\ extractCalls = 1
          /\ gen.kind = "response"
          /\ elog = <<"generate_call", "generate_return", "extract", "respond">>

\* C7 as amended: every path of evaluate_argument runs the extraction at most
\* once: exactly once, on the one full generation reply and before the
\* response, on the path that answers with the four fields, and not at all on
\* the paths that answer with an error (a body without text or topic, a body
\* that is no JSON object and ends in an uncaught TypeError and status 500, a
\* generation that raises, a blocked or empty reply); at most one generation
\* call is made and outstanding per request, none for a body that is not an
\* object with text and topic
C7_ExtractionOnceOnSuccess ==
    /\ genCalls <= 1 /\ outstanding <= 1 /\ extractCalls <= 1
    /\ outstanding = 1 => epc = "generating"
    /\ Answered =>
          /\ extractCalls = IF BodyComplete /\ GotText THEN 1 ELSE 0
          /\ (eresp.kind = "feedback") = (extractCalls = 1)
          /\ extractCalls = 1 =>
                elog = <<"generate_call", "generate_return", "extract", "respond">>
          /\ ~BodyComplete =>
                /\ genCalls = 0
                /\ eresp.status = IF BodyMistyped THEN 500 ELSE 400
                /\ elog = IF BodyMistyped THEN <<"raise">> ELSE <<"respond">>

\* the success path has run: one call, one extraction, then the response
C7_Witness ==
    /\ Answered
    /\ eresp.kind = "feedback"
    /\ genCalls = 1 /\ extractCalls = 1 /\ outstanding = 0

(***************************************************************************)
(* C8                                                                      *)
(***************************************************************************)
\* C8: under any interleaving of two concurrent speech-to-text requests, the
\* audio a request reads back and transcribes is the audio uploaded in that
\* request, never the upload of the other request or a part of it
C8_EachRequestReadsItsOwnUpload ==
    \A r \in Req :
        /\ (spc[r] \in {"recorded", "done"} /\ audio_data[r] # Absent) =>
              audio_data[r] = [k \in 1..Blocks |-> upload[r]]
        /\ sresp[r].kind = "transcription" =>
              sresp[r].transcription =
                 (IF upload[r] = "speech_a" THEN "hello" ELSE "world")
====
